---------------------------- MODULE Spec2Model ----------------------------
(***************************************************************************)
(* Package mongoutils: helper functions around the mgo MongoDB driver.     *)
(*                                                                         *)
(* Go strings are modelled as sequences of one-character strings (one per  *)
(* byte), a bson.ObjectId as the sequence of its bytes (0..255), an error  *)
(* value as the text of its message and the nil error as NoError.          *)
(*                                                                         *)
(* SpecCodec : a caller holds a string or an ObjectId and converts back    *)
(*             and forth with GetObjectIdFromString / GetStringFromObjectId*)
(* SpecQuery : a caller holds an *http.Request and asks Limit and Sort.    *)
(* SpecSession : a caller connects, closes and tests the errors of queries *)
(*             with Connect, Close and NoResult.  An error of the driver   *)
(*             is a record of its dynamic type, identity and message.      *)
(***************************************************************************)
EXTENDS Integers, Sequences, FiniteSets, TLC

VARIABLES
    objectIdCounter, \* the driver's package-level ObjectId counter (bson)
    str,             \* the string the caller holds: <<>> or <<s>>
    id,              \* the ObjectId the caller holds: <<>> or <<x>>
    decoded,         \* the last GetObjectIdFromString call: <<>> or <<[inputId, id, err]>>
    encoded,         \* the last GetStringFromObjectId call: <<>> or <<[input, out]>>
    calls,           \* number of codec calls made so far
    r,               \* the request handed to Limit and Sort: its form values
    limitRet,        \* what Limit returned: <<>> or <<n>>
    sortRet,         \* what Sort returned: <<>> or <<tokens>>
    SESSION,         \* the global *mgo.Session: 0 (nil) or an index into sessions
    sessions,        \* the sessions mgo.Dial has created, in order
    lastCall,        \* the last Connect or Close call: <<>> or <<[op, outcome, before]>>
    noResult         \* the last NoResult call: <<>> or <<[input, found, err]>>

vars == <<objectIdCounter, str, id, decoded, encoded, calls, r, limitRet, sortRet,
          SESSION, sessions, lastCall, noResult>>

codecVars == <<objectIdCounter, str, id, decoded, encoded, calls>>
queryVars == <<r, limitRet, sortRet>>
sessionVars == <<SESSION, sessions, lastCall, noResult>>

----------------------------------------------------------------------------
(* Program constants and error values                                      *)

ID_LENGTH == 24
LIMIT_DEFAULT_VALUE == 5
LIMIT_RETURN_ALL == 0
SORT_DEFAULT == <<"_", "i", "d">>

NoError == "<nil>"
ErrIdBadLength == "idMustBe24CharactersLong"
ErrIdNotHex == "idNotHexadecimal"
ErrNoResults == "noResultsFound"
\* outcome of a call that ends in a run-time panic instead of returning
Panic == "panic"

----------------------------------------------------------------------------
(* Bounds of the model                                                     *)

\* longest string handed to GetObjectIdFromString
MaxIdLen == 26
\* longest byte string converted to a bson.ObjectId by the caller
MaxObjectIdLen == 13
\* number of codec calls in one behaviour
MaxCalls == 3

----------------------------------------------------------------------------
(* Characters                                                              *)

Digits == {"0", "1", "2", "3", "4", "5", "6", "7", "8", "9"}
HexLower == {"a", "b", "c", "d", "e", "f"}
HexUpper == {"A", "B", "C", "D", "E", "F"}
HexChars == Digits \cup HexLower \cup HexUpper
\* the characters next to the three hexadecimal ranges, and a few others
NonHexChars == {"/", ":", "@", "G", "_", "g", " ", "-"}

hextable == <<"0", "1", "2", "3", "4", "5", "6", "7",
              "8", "9", "a", "b", "c", "d", "e", "f">>

\* encoding/hex fromHexChar: the value of a hexadecimal digit, -1 otherwise
fromHexChar(c) ==
    CASE c \in Digits   -> (CHOOSE n \in 0..9 : hextable[n + 1] = c)
      [] c \in HexLower -> (CHOOSE n \in 10..15 : hextable[n + 1] = c)
      [] c = "A" -> 10 [] c = "B" -> 11 [] c = "C" -> 12
      [] c = "D" -> 13 [] c = "E" -> 14 [] c = "F" -> 15
      [] OTHER -> -1

\* encoding/hex DecodeString succeeds: even length, every byte a hex digit
hexDecodes(s) ==
    /\ Len(s) % 2 = 0
    /\ \A i \in 1..Len(s) : fromHexChar(s[i]) >= 0

\* encoding/hex DecodeString: two digits per byte, high nibble first
hexDecodeString(s) ==
    [i \in 1..(Len(s) \div 2) |->
        16 * fromHexChar(s[2 * i - 1]) + fromHexChar(s[2 * i])]

\* encoding/hex EncodeToString: two lower-case digits per byte
hexEncodeToString(b) ==
    [i \in 1..(2 * Len(b)) |->
        IF i % 2 = 1 THEN hextable[(b[(i + 1) \div 2] \div 16) + 1]
                     ELSE hextable[(b[i \div 2] % 16) + 1]]

----------------------------------------------------------------------------
(* The driver's ObjectId functions used by the package                     *)

\* bson.IsObjectIdHex
IsObjectIdHex(s) == Len(s) = 24 /\ hexDecodes(s)

\* bson.ObjectIdHex: panics unless s is the hex form of 12 bytes
ObjectIdHex(s) ==
    IF hexDecodes(s) /\ Len(s) \div 2 = 12
    THEN [ok |-> TRUE, id |-> hexDecodeString(s)]
    ELSE [ok |-> FALSE, id |-> <<>>]

\* ObjectId.Hex
Hex(x) == hexEncodeToString(x)

\* bson.NewObjectId with the counter at c (already incremented): 4 bytes of
\* time, 3 of machine id, 2 of process id, the low 3 bytes of the counter
NewObjectId(c) ==
    <<86, 52, 18, 0>> \o <<171, 205, 239>> \o <<4, 210>>
        \o <<(c \div 65536) % 256, (c \div 256) % 256, c % 256>>

----------------------------------------------------------------------------
(* Object id validation                                                    *)

isIdCorrectLength(inputId) ==
    IF Len(inputId) # ID_LENGTH
    THEN <<FALSE, ErrIdBadLength>>
    ELSE <<TRUE, NoError>>

\* isValidHexString with its test inverted
isValidHexString_Inverted(inputId) ==
    IF IsObjectIdHex(inputId) = TRUE
    THEN <<FALSE, ErrIdNotHex>>
    ELSE <<TRUE, NoError>>

isValidHexString(inputId) ==
    IF IsObjectIdHex(inputId) = FALSE
    THEN <<FALSE, ErrIdNotHex>>
    ELSE <<TRUE, NoError>>

\* isValidId with the two checks in the other order
isValidId_HexFirst(inputId) ==
    IF isValidHexString(inputId)[1] = FALSE
    THEN <<FALSE, isValidHexString(inputId)[2]>>
    ELSE IF isIdCorrectLength(inputId)[1] = FALSE
    THEN <<FALSE, isIdCorrectLength(inputId)[2]>>
    ELSE <<TRUE, NoError>>

isValidId(inputId) ==
    IF isIdCorrectLength(inputId)[1] = FALSE
    THEN <<FALSE, isIdCorrectLength(inputId)[2]>>
    ELSE IF isValidHexString(inputId)[1] = FALSE
    THEN <<FALSE, isValidHexString(inputId)[2]>>
    ELSE <<TRUE, NoError>>

----------------------------------------------------------------------------
(* Strings and ObjectIds the caller may hold                               *)

\* the first n elements of b repeated
Cycle(b, n) == [i \in 1..n |-> b[((i - 1) % Len(b)) + 1]]

\* b with its i-th element replaced by c
Sub(b, i, c) == [b EXCEPT ![i] = c]

\* "507f1f77bcf86cd799439011"
LowerHexId == <<"5", "0", "7", "f", "1", "f", "7", "7", "b", "c", "f", "8",
                "6", "c", "d", "7", "9", "9", "4", "3", "9", "0", "1", "1">>

\* "ABCDEFabcdef0123456789aB"
MixedHexId == <<"A", "B", "C", "D", "E", "F", "a", "b", "c", "d", "e", "f",
                "0", "1", "2", "3", "4", "5", "6", "7", "8", "9", "a", "B">>

IdStrings ==
    \* 24 characters, every character tried at every position
    {Sub(LowerHexId, i, c) : i \in 1..ID_LENGTH, c \in HexChars \cup NonHexChars}
    \* every length up to MaxIdLen, all hexadecimal
    \cup {Cycle(MixedHexId, n) : n \in 0..MaxIdLen}
    \* every length up to MaxIdLen with a non-hexadecimal first or last character
    \cup UNION {{Sub(Cycle(MixedHexId, n), k, c) : k \in {1, n}, c \in NonHexChars} :
                    n \in 1..MaxIdLen}

\* the bytes of 507f1f77bcf86cd799439011
SampleIdBytes == <<80, 127, 31, 119, 188, 248, 108, 215, 153, 67, 144, 17>>

\* a bson.ObjectId is a Go string type: the caller can convert any byte
\* string to it, and its zero value is the empty string
ObjectIds ==
    {Cycle(b, n) : b \in {SampleIdBytes, <<0>>, <<255>>, <<10, 171>>},
                   n \in 0..MaxObjectIdLen}

\* values the driver may have left its counter at
CounterSeeds == {0, 255, 65535, 16777215}

----------------------------------------------------------------------------
(* Object id conversion                                                    *)

\* GetObjectIdFromString returning a new ObjectId on the valid path as well
GetObjectIdFromString_AlwaysNew ==
    /\ calls < MaxCalls
    /\ str # <<>>
    /\ LET inputId == str[1]
           valid == isValidId(inputId)
       IN  /\ objectIdCounter' = objectIdCounter + 1
           /\ id' = <<NewObjectId(objectIdCounter + 1)>>
           /\ decoded' = <<[inputId |-> inputId,
                            id |-> NewObjectId(objectIdCounter + 1),
                            err |-> valid[2]]>>
    /\ calls' = calls + 1
    /\ UNCHANGED <<str, encoded, queryVars, sessionVars>>

\* func GetObjectIdFromString(inputId string) (bson.ObjectId, error)
GetObjectIdFromString ==
    /\ calls < MaxCalls
    /\ str # <<>>
    /\ LET inputId == str[1]
           valid == isValidId(inputId)
       IN  IF valid[1] = FALSE
           THEN \* bson.NewObjectId() advances the driver's counter
                /\ objectIdCounter' = objectIdCounter + 1
                /\ id' = <<NewObjectId(objectIdCounter + 1)>>
                /\ decoded' = <<[inputId |-> inputId,
                                 id |-> NewObjectId(objectIdCounter + 1),
                                 err |-> valid[2]]>>
           ELSE IF ObjectIdHex(inputId).ok
           THEN /\ id' = <<ObjectIdHex(inputId).id>>
                /\ decoded' = <<[inputId |-> inputId,
                                 id |-> ObjectIdHex(inputId).id,
                                 err |-> NoError]>>
                /\ UNCHANGED objectIdCounter
           ELSE /\ id' = <<>>
                /\ decoded' = <<[inputId |-> inputId, id |-> <<>>, err |-> Panic]>>
                /\ UNCHANGED objectIdCounter
    /\ calls' = calls + 1
    /\ UNCHANGED <<str, encoded, queryVars, sessionVars>>

\* GetStringFromObjectId returning input.String(), ObjectIdHex("..."),
\* instead of input.Hex()
GetStringFromObjectId_String ==
    /\ calls < MaxCalls
    /\ id # <<>>
    /\ LET input == id[1]
           out == <<"O", "b", "j", "e", "c", "t", "I", "d", "H", "e", "x", "(", "\"">>
                    \o Hex(input) \o <<"\"", ")">>
       IN  /\ str' = <<out>>
           /\ encoded' = <<[input |-> input, out |-> out]>>
    /\ calls' = calls + 1
    /\ UNCHANGED <<objectIdCounter, id, decoded, queryVars, sessionVars>>

\* func GetStringFromObjectId(input bson.ObjectId) string
GetStringFromObjectId ==
    /\ calls < MaxCalls
    /\ id # <<>>
    /\ LET input == id[1]
       IN  /\ str' = <<Hex(input)>>
           /\ encoded' = <<[input |-> input, out |-> Hex(input)]>>
    /\ calls' = calls + 1
    /\ UNCHANGED <<objectIdCounter, id, decoded, queryVars, sessionVars>>

----------------------------------------------------------------------------
(* Form values and the library functions Limit and Sort use                *)

\* longest limit form value enumerated character by character
MaxLimitLen == 3
\* longest sort form value enumerated character by character
MaxSortLen == 4

\* Request.FormValue: the first value for the key, "" when there is none
FormValue(req, key) ==
    IF req.Form[key] = <<>> THEN <<>> ELSE req.Form[key][1]

\* the width of int in the build modelled (GOARCH 386, arm, ...)
IntSize == 32
\* the largest int of that build, 1<<(IntSize-1) - 1
MaxInt == 2147483647
MinInt == -MaxInt - 1

SyntaxError == "strconv.Atoi: invalid syntax"
RangeError == "strconv.Atoi: value out of range"

\* s[from..]
Tail_(s, from) == SubSeq(s, from, Len(s))

digitVal(c) == CHOOSE n \in 0..9 : hextable[n + 1] = c

\* strconv.ParseUint, base 10, accumulating the negated value so that the
\* magnitude 1<<(IntSize-1) is representable: the result is <= 0, or 1 when
\* the magnitude exceeds 1<<(IntSize-1)
RECURSIVE parseMagnitude(_, _, _)
parseMagnitude(s, i, acc) ==
    IF i > Len(s) THEN acc
    ELSE LET d == digitVal(s[i])
         IN  IF acc < -(MaxInt \div 10)
                \/ (acc = -(MaxInt \div 10) /\ d > (MaxInt % 10) + 1)
             THEN 1
             ELSE parseMagnitude(s, i + 1, acc * 10 - d)

\* strconv.Atoi = ParseInt(s, 10, 0): an optional sign, then one or more
\* decimal digits and nothing else; <<value, error>>
Atoi(s) ==
    LET neg == (Len(s) > 0 /\ s[1] = "-")
        signed == (Len(s) > 0 /\ s[1] \in {"-", "+"})
        digits == IF signed THEN Tail_(s, 2) ELSE s
    IN  IF Len(s) = 0 \/ Len(digits) = 0 THEN <<0, SyntaxError>>
        ELSE IF \E i \in 1..Len(digits) : digits[i] \notin Digits
        THEN <<0, SyntaxError>>
        ELSE LET m == parseMagnitude(digits, 1, 0)
             IN  IF m = 1 THEN <<IF neg THEN MinInt ELSE MaxInt, RangeError>>
                 ELSE IF ~neg /\ m = MinInt THEN <<MaxInt, RangeError>>
                 ELSE <<IF neg THEN m ELSE -m, NoError>>

\* strings.Index(s, sep) for a one-byte sep: 0 when absent, else the position
Index(s, sep) ==
    IF \E i \in 1..Len(s) : s[i] = sep
    THEN CHOOSE i \in 1..Len(s) :
            s[i] = sep /\ \A j \in 1..(i - 1) : s[j] # sep
    ELSE 0

\* strings.Split(s, sep) for a one-byte sep
RECURSIVE Split(_, _)
Split(s, sep) ==
    LET m == Index(s, sep)
    IN  IF m = 0 THEN <<s>>
        ELSE <<SubSeq(s, 1, m - 1)>> \o Split(Tail_(s, m + 1), sep)

----------------------------------------------------------------------------
(* Queries                                                                 *)

\* Limit comparing the keywords without regard to case
LimitOf_FoldCase(req) ==
    LET limit == FormValue(req, "limit")
        lower == [i \in 1..Len(limit) |->
                    CASE limit[i] = "N" -> "n" [] limit[i] = "O" -> "o"
                      [] limit[i] = "E" -> "e" [] limit[i] = "A" -> "a"
                      [] limit[i] = "L" -> "l" [] OTHER -> limit[i]]
    IN  IF Len(limit) = 0 THEN LIMIT_DEFAULT_VALUE
        ELSE IF lower = <<"n", "o", "n", "e">> \/ lower = <<"a", "l", "l">>
        THEN LIMIT_RETURN_ALL
        ELSE IF Atoi(limit)[2] # NoError THEN LIMIT_DEFAULT_VALUE
        ELSE Atoi(limit)[1]

\* Limit without the check of the error Atoi returns
LimitOf_IgnoreErr(req) ==
    LET limit == FormValue(req, "limit")
    IN  IF Len(limit) = 0 THEN LIMIT_DEFAULT_VALUE
        ELSE IF limit = <<"n", "o", "n", "e">> \/ limit = <<"a", "l", "l">>
        THEN LIMIT_RETURN_ALL
        ELSE Atoi(limit)[1]

\* Limit replacing a parsed value below 1 by the default
LimitOf_Clamp(req) ==
    LET limit == FormValue(req, "limit")
    IN  IF Len(limit) = 0 THEN LIMIT_DEFAULT_VALUE
        ELSE IF limit = <<"n", "o", "n", "e">> \/ limit = <<"a", "l", "l">>
        THEN LIMIT_RETURN_ALL
        ELSE IF Atoi(limit)[2] # NoError THEN LIMIT_DEFAULT_VALUE
        ELSE IF Atoi(limit)[1] < 1 THEN LIMIT_DEFAULT_VALUE
        ELSE Atoi(limit)[1]

\* Limit returning LIMIT_RETURN_ALL when no limit was set
LimitOf_EmptyIsAll(req) ==
    LET limit == FormValue(req, "limit")
    IN  IF Len(limit) = 0 THEN LIMIT_RETURN_ALL
        ELSE IF limit = <<"n", "o", "n", "e">> \/ limit = <<"a", "l", "l">>
        THEN LIMIT_RETURN_ALL
        ELSE IF Atoi(limit)[2] # NoError THEN LIMIT_DEFAULT_VALUE
        ELSE Atoi(limit)[1]

\* func Limit(r *http.Request) int
LimitOf(req) ==
    LET limit == FormValue(req, "limit")
    IN  IF Len(limit) = 0 THEN LIMIT_DEFAULT_VALUE
        ELSE IF limit = <<"n", "o", "n", "e">> \/ limit = <<"a", "l", "l">>
        THEN LIMIT_RETURN_ALL
        ELSE IF Atoi(limit)[2] # NoError THEN LIMIT_DEFAULT_VALUE
        ELSE Atoi(limit)[1]

\* Sort leaving out the empty tokens
SortOf_DropEmpty(req) ==
    LET sort == FormValue(req, "sort")
        NonEmpty(tok) == Len(tok) > 0
    IN  IF Len(sort) = 0 THEN <<SORT_DEFAULT>>
        ELSE SelectSeq(Split(sort, ","), NonEmpty)

\* Sort returning bare field names, the leading "-" removed
SortOf_StripSign(req) ==
    LET sort == FormValue(req, "sort")
        split == Split(sort, ",")
    IN  IF Len(sort) = 0 THEN <<SORT_DEFAULT>>
        ELSE [i \in 1..Len(split) |->
                IF Len(split[i]) > 0 /\ split[i][1] = "-"
                THEN Tail_(split[i], 2) ELSE split[i]]

\* Sort without the check for an unset value
SortOf_NoDefault(req) ==
    LET sort == FormValue(req, "sort")
    IN  Split(sort, ",")

\* Sort splitting on blanks as well as on commas
SortOf_SplitBlank(req) ==
    LET sort == FormValue(req, "sort")
        commas == [i \in 1..Len(sort) |-> IF sort[i] = " " THEN "," ELSE sort[i]]
    IN  IF Len(sort) = 0 THEN <<SORT_DEFAULT>>
        ELSE Split(commas, ",")

\* func Sort(r *http.Request) []string
SortOf(req) ==
    LET sort == FormValue(req, "sort")
    IN  IF Len(sort) = 0 THEN <<SORT_DEFAULT>>
        ELSE Split(sort, ",")

Limit ==
    /\ limitRet' = <<LimitOf(r)>>
    /\ UNCHANGED <<r, sortRet, codecVars, sessionVars>>

Sort ==
    /\ sortRet' = <<SortOf(r)>>
    /\ UNCHANGED <<r, limitRet, codecVars, sessionVars>>

----------------------------------------------------------------------------
(* Requests                                                                *)

\* every string over chars of length at most n
StringsUpTo(chars, n) == UNION {[1..k -> chars] : k \in 0..n}

LimitChars == {"0", "1", "5", "-", "+", "a", " "}
SortChars == {",", "-", "a", "b", " "}

LimitWords ==
    { <<"n", "o", "n", "e">>, <<"a", "l", "l">>,
      <<"N", "o", "n", "e">>, <<"N", "O", "N", "E">>,
      <<"A", "l", "l">>, <<"A", "L", "L">>, <<"a", "l", "L">>,
      <<"n", "o", "n", "e", " ">>, <<" ", "a", "l", "l">>,
      <<"n", "o", "n">>, <<"a", "l", "l", "l">>,
      <<"1", "0">>, <<"0", "0", "7">>, <<"4">>, <<"6">>, <<"-", "0">>,
      <<"1", "_", "0", "0", "0">>, <<"1", "e", "3">>, <<"0", "x", "1", "0">>,
      <<"5", ".", "0">>, <<"a", "b", "c">>,
      <<"2", "1", "4", "7", "4", "8", "3", "6", "4", "7">>,
      <<"2", "1", "4", "7", "4", "8", "3", "6", "4", "8">>,
      <<"+", "2", "1", "4", "7", "4", "8", "3", "6", "4", "7">>,
      <<"-", "2", "1", "4", "7", "4", "8", "3", "6", "4", "8">>,
      <<"-", "2", "1", "4", "7", "4", "8", "3", "6", "4", "9">>,
      <<"2", "1", "4", "7", "4", "8", "3", "6", "5", "0">>,
      <<"0", "0", "0", "0", "0", "0", "0", "0", "0", "0", "1", "2">>,
      <<"9", "9", "9", "9", "9", "9", "9", "9", "9", "9",
        "9", "9", "9", "9", "9", "9", "9", "9", "9", "9">> }

SortWords ==
    { <<"b", "i", "r", "t", "h", "d", "a", "y", ",",
        "-", "u", "s", "e", "r", "n", "a", "m", "e">>,
      <<"-", "a", ",", "-", "b", ",", "c">>,
      <<"a", ",", " ", "b", ",", "a", ",", ",">> }

LimitValues == StringsUpTo(LimitChars, MaxLimitLen) \cup LimitWords
SortValues == StringsUpTo(SortChars, MaxSortLen) \cup SortWords

NoForm == [Form |-> [limit |-> <<>>, sort |-> <<>>]]

\* the form of a request: each key absent, or present with one value, or
\* present with a second value after it
Requests ==
    {[Form |-> [limit |-> <<v>>, sort |-> <<>>]] : v \in LimitValues}
    \cup {[Form |-> [limit |-> <<>>, sort |-> <<v>>]] : v \in SortValues}
    \cup {[Form |-> [limit |-> <<v, w>>, sort |-> <<w, v>>]] :
            v \in LimitWords, w \in SortWords \cup {<<>>}}
    \cup {NoForm}

----------------------------------------------------------------------------
(* Connect and disconnect                                                  *)

\* number of Connect calls whose dial succeeds in one behaviour
MaxDials == 2

\* the nil *mgo.Session
NilSession == 0

\* the read preferences and write concerns a caller may pass to Connect
ReadPreferences == {-1, 0, 1, 2, 3}
WriteConcerns == {"nil", "&mgo.Safe{}", "&mgo.Safe{WMode: majority, FSync: true}"}

\* the session mgo.Dial returns: consistency Strong, not closed
DialedSession == [mode |-> "Strong", safe |-> "&mgo.Safe{}", closed |-> FALSE]

\* func setReadPreference(s *mgo.Session, input int)
setReadPreference(s, input) ==
    IF input = 0 THEN [s EXCEPT !.mode = "Eventual"]
    ELSE IF input = 1 THEN [s EXCEPT !.mode = "Monotonic"]
    ELSE IF input = 2 THEN [s EXCEPT !.mode = "Strong"]
    ELSE s

\* Session.SetSafe
SetSafe(s, writeConcern) == [s EXCEPT !.safe = writeConcern]

\* the package state before any Connect
NoSession ==
    /\ SESSION = NilSession
    /\ sessions = <<>>
    /\ lastCall = <<>>
    /\ noResult = <<>>

\* func Connect(servers string, database string, readPreference int,
\*              writeConcern *mgo.Safe)
\* dialOk is whether mgo.Dial(uri) reaches a server
Connect ==
    /\ Len(sessions) < MaxDials
    /\ \E dialOk \in BOOLEAN, readPreference \in ReadPreferences,
          writeConcern \in WriteConcerns :
          IF ~dialOk
          THEN \* log.Panicln(err): the assignment is never reached
               /\ lastCall' = <<[op |-> "Connect", outcome |-> Panic,
                                 before |-> SESSION]>>
               /\ UNCHANGED <<SESSION, sessions>>
          ELSE LET session == SetSafe(setReadPreference(DialedSession, readPreference),
                                      writeConcern)
               IN  /\ sessions' = Append(sessions, session)
                   /\ SESSION' = Len(sessions) + 1
                   /\ lastCall' = <<[op |-> "Connect", outcome |-> "return",
                                     before |-> SESSION]>>
    /\ UNCHANGED <<noResult, codecVars, queryVars>>

\* Close that forgets the session it closed
Close_Reset ==
    /\ IF SESSION = NilSession
       THEN /\ lastCall' = <<[op |-> "Close", outcome |-> Panic, before |-> SESSION]>>
            /\ UNCHANGED <<SESSION, sessions>>
       ELSE /\ sessions' = [sessions EXCEPT ![SESSION].closed = TRUE]
            /\ lastCall' = <<[op |-> "Close", outcome |-> "return", before |-> SESSION]>>
            /\ SESSION' = NilSession
    /\ UNCHANGED <<noResult, codecVars, queryVars>>

\* func Close(): SESSION.Close()
\* Session.Close locks the session first, so a nil SESSION is a nil pointer
\* dereference; closing a closed session does nothing more
Close ==
    /\ IF SESSION = NilSession
       THEN /\ lastCall' = <<[op |-> "Close", outcome |-> Panic, before |-> SESSION]>>
            /\ UNCHANGED <<SESSION, sessions>>
       ELSE /\ sessions' = [sessions EXCEPT ![SESSION].closed = TRUE]
            /\ lastCall' = <<[op |-> "Close", outcome |-> "return", before |-> SESSION]>>
            /\ UNCHANGED SESSION
    /\ UNCHANGED <<noResult, codecVars, queryVars>>

----------------------------------------------------------------------------
(* Error handling                                                          *)

NilError == [type |-> "nil", ptr |-> "nil", msg |-> ""]
\* mgo.ErrNotFound = errors.New("not found")
ErrNotFound == [type |-> "*errors.errorString", ptr |-> "mgo.ErrNotFound",
                msg |-> "not found"]

\* what Query.One and the other driver calls may hand to the caller
DriverErrors ==
    { NilError, ErrNotFound,
      [type |-> "*errors.errorString", ptr |-> "errors.New#1", msg |-> "not found"],
      [type |-> "*errors.errorString", ptr |-> "mgo.ErrCursor", msg |-> "invalid cursor"],
      [type |-> "*errors.errorString", ptr |-> "io.EOF", msg |-> "EOF"],
      [type |-> "*mgo.QueryError", ptr |-> "queryError#1", msg |-> "not found"],
      [type |-> "*mgo.LastError", ptr |-> "lastError#1", msg |-> "E11000 duplicate key"],
      [type |-> "*net.OpError", ptr |-> "opError#1", msg |-> "i/o timeout"] }

\* == on two error interface values: same dynamic type and same pointer
SameError(a, b) == a.type = b.type /\ a.ptr = b.ptr

\* NoResult comparing the messages instead of the values
NoResultOf_ByMessage(input) ==
    IF input.msg = ErrNotFound.msg THEN <<TRUE, ErrNoResults>>
    ELSE <<FALSE, NoError>>

\* func NoResult(input error) (bool, error)
NoResultOf(input) ==
    IF SameError(input, ErrNotFound) THEN <<TRUE, ErrNoResults>>
    ELSE <<FALSE, NoError>>

NoResult ==
    /\ \E input \in DriverErrors :
          noResult' = <<[input |-> input,
                         found |-> NoResultOf(input)[1],
                         err |-> NoResultOf(input)[2]]>>
    /\ UNCHANGED <<SESSION, sessions, lastCall, codecVars, queryVars>>

----------------------------------------------------------------------------
(* Specifications                                                          *)

InitCodec ==
    /\ objectIdCounter \in CounterSeeds
    /\ \/ str \in {<<s>> : s \in IdStrings} /\ id = <<>>
       \/ id \in {<<x>> : x \in ObjectIds} /\ str = <<>>
    /\ decoded = <<>>
    /\ encoded = <<>>
    /\ calls = 0
    /\ r = NoForm
    /\ limitRet = <<>>
    /\ sortRet = <<>>
    /\ NoSession

NextCodec == GetObjectIdFromString \/ GetStringFromObjectId

SpecCodec == InitCodec /\ [][NextCodec]_vars

InitQuery ==
    /\ objectIdCounter = 0
    /\ str = <<>>
    /\ id = <<>>
    /\ decoded = <<>>
    /\ encoded = <<>>
    /\ calls = 0
    /\ r \in Requests
    /\ limitRet = <<>>
    /\ sortRet = <<>>
    /\ NoSession

NextQuery == Limit \/ Sort

SpecQuery == InitQuery /\ [][NextQuery]_vars

InitSession ==
    /\ objectIdCounter = 0
    /\ str = <<>>
    /\ id = <<>>
    /\ decoded = <<>>
    /\ encoded = <<>>
    /\ calls = 0
    /\ r = NoForm
    /\ limitRet = <<>>
    /\ sortRet = <<>>
    /\ NoSession

NextSession == Connect \/ Close \/ NoResult

SpecSession == InitSession /\ [][NextSession]_vars

----------------------------------------------------------------------------
(* Properties of the identifier codec, checked under SpecCodec             *)

\* the lower-case form of an ASCII letter used in the inputs, else c itself
LowerOf(c) ==
    CASE c = "A" -> "a" [] c = "B" -> "b" [] c = "C" -> "c" [] c = "D" -> "d"
      [] c = "E" -> "e" [] c = "F" -> "f" [] c = "G" -> "g" [] c = "L" -> "l"
      [] c = "N" -> "n" [] c = "O" -> "o" [] OTHER -> c

ToLower(s) == [i \in 1..Len(s) |-> LowerOf(s[i])]

AllIn(s, chars) == \A i \in 1..Len(s) : s[i] \in chars

\* C1: a string whose length is not 24 is rejected with ErrIdBadLength,
\* whether or not it also holds non-hexadecimal characters (the length is
\* checked first).
C1_BadLengthFails ==
    (decoded # <<>> /\ Len(decoded[1].inputId) # 24)
        => decoded[1].err = ErrIdBadLength

\* C1 witness: a wrong-length string with a non-hexadecimal character was
\* decoded and reported the length.
C1_Witness ==
    /\ decoded # <<>>
    /\ Len(decoded[1].inputId) \notin {0, 24}
    /\ ~AllIn(decoded[1].inputId, HexChars)
    /\ decoded[1].err = ErrIdBadLength

\* C2: a string of exactly 24 characters with at least one character that is
\* not a hexadecimal digit is rejected with ErrIdNotHex.
C2_NotHexFails ==
    (/\ decoded # <<>>
     /\ Len(decoded[1].inputId) = 24
     /\ ~AllIn(decoded[1].inputId, HexChars))
        => decoded[1].err = ErrIdNotHex

\* C2 witness: a 24-character string whose only bad character is its last.
C2_Witness ==
    /\ decoded # <<>>
    /\ Len(decoded[1].inputId) = 24
    /\ AllIn(SubSeq(decoded[1].inputId, 1, 23), HexChars)
    /\ decoded[1].inputId[24] = "g"
    /\ decoded[1].err = ErrIdNotHex

\* C3: a 24-character hexadecimal string (either case) decodes without
\* error, and encoding the identifier obtained gives the string in lower case.
C3_DecodeThenEncode ==
    (/\ decoded # <<>>
     /\ Len(decoded[1].inputId) = 24
     /\ AllIn(decoded[1].inputId, HexChars))
        => /\ decoded[1].err = NoError
           /\ (encoded # <<>> /\ encoded[1].input = decoded[1].id)
                => encoded[1].out = ToLower(decoded[1].inputId)

\* C3 witness: a valid string with upper-case digits was decoded and the
\* result encoded, giving the lower-case string.
C3_Witness ==
    /\ decoded # <<>>
    /\ Len(decoded[1].inputId) = 24
    /\ AllIn(decoded[1].inputId, HexChars)
    /\ ~AllIn(decoded[1].inputId, Digits \cup HexLower)
    /\ decoded[1].err = NoError
    /\ encoded # <<>>
    /\ encoded[1].input = decoded[1].id
    /\ encoded[1].out = ToLower(decoded[1].inputId)
    /\ encoded[1].out # decoded[1].inputId

\* the round trip of one encoded identifier
RoundTrips ==
    /\ Len(encoded[1].out) = 24
    /\ AllIn(encoded[1].out, Digits \cup HexLower)
    /\ (decoded # <<>> /\ decoded[1].inputId = encoded[1].out)
            => (decoded[1].err = NoError /\ decoded[1].id = encoded[1].input)

C5_DecodeIsPure ==
    [][/\ objectIdCounter' = objectIdCounter
       /\ (/\ decoded # <<>>
           /\ decoded' # <<>>
           /\ decoded'[1].inputId = decoded[1].inputId)
                => decoded'[1] = decoded[1]]_vars

----------------------------------------------------------------------------
(* Properties of Limit and Sort, checked under SpecQuery                   *)

HasLimit == r.Form["limit"] # <<>>
HasSort == r.Form["sort"] # <<>>
\* the form value Limit reads, when there is one
LimitValue == r.Form["limit"][1]
\* the form value Sort reads, when there is one
SortValue == r.Form["sort"][1]

KeywordNone == <<"n", "o", "n", "e">>
KeywordAll == <<"a", "l", "l">>
Keywords == {KeywordNone, KeywordAll}

\* decimal integer syntax: an optional sign and at least one digit
Unsigned(v) == IF Len(v) > 0 /\ v[1] \in {"+", "-"} THEN SubSeq(v, 2, Len(v)) ELSE v
Negative(v) == Len(v) > 0 /\ v[1] = "-"
IsIntSyntax(v) == Len(Unsigned(v)) > 0 /\ AllIn(Unsigned(v), Digits)

\* a digit string without its leading zeros (one digit at least is kept)
RECURSIVE StripZeros(_)
StripZeros(d) ==
    IF Len(d) > 1 /\ d[1] = "0" THEN StripZeros(SubSeq(d, 2, Len(d))) ELSE d

DigitOf(c) == CHOOSE n \in 0..9 : <<"0", "1", "2", "3", "4", "5", "6", "7", "8", "9">>[n + 1] = c

\* c <= b for digit strings of the same length
LexLE(c, b) ==
    \/ c = b
    \/ \E i \in 1..Len(c) :
          /\ DigitOf(c[i]) < DigitOf(b[i])
          /\ \A j \in 1..(i - 1) : c[j] = b[j]

MaxIntDigits == <<"2", "1", "4", "7", "4", "8", "3", "6", "4", "7">>
MinIntDigits == <<"2", "1", "4", "7", "4", "8", "3", "6", "4", "8">>

\* the integer written by v lies within the int of the build
FitsInt(v) ==
    LET c == StripZeros(Unsigned(v))
    IN  \/ Len(c) < Len(MaxIntDigits)
        \/ /\ Len(c) = Len(MaxIntDigits)
           /\ LexLE(c, IF Negative(v) THEN MinIntDigits ELSE MaxIntDigits)

ParsesAsInt(v) == IsIntSyntax(v) /\ FitsInt(v)

RECURSIVE Pow10(_)
Pow10(k) == IF k = 0 THEN 1 ELSE 10 * Pow10(k - 1)

\* sgn times the sum of digit times power of ten, lowest digit first
RECURSIVE PlaceSum(_, _, _)
PlaceSum(c, i, sgn) ==
    IF i = 0 THEN 0
    ELSE sgn * DigitOf(c[i]) * Pow10(Len(c) - i) + PlaceSum(c, i - 1, sgn)

\* the integer a decimal string that fits int writes
DecimalValue(v) ==
    LET c == StripZeros(Unsigned(v))
    IN  PlaceSum(c, Len(c), IF Negative(v) THEN -1 ELSE 1)

C7_MalformedGivesDefault ==
    limitRet # <<>>
        => /\ limitRet[1] \in Int
           /\ (\/ ~HasLimit
               \/ Len(LimitValue) = 0
               \/ (LimitValue \notin Keywords /\ ~ParsesAsInt(LimitValue)))
                => limitRet[1] = 5

\* C7 witness: Limit returned 5 for a digit string too large for int.
C7_Witness ==
    /\ limitRet = <<5>>
    /\ HasLimit
    /\ IsIntSyntax(LimitValue)
    /\ ~FitsInt(LimitValue)

RECURSIVE Count(_, _)
Count(s, c) ==
    IF Len(s) = 0 THEN 0
    ELSE (IF s[1] = c THEN 1 ELSE 0) + Count(SubSeq(s, 2, Len(s)), c)

\* the tokens joined again with sep between them
RECURSIVE Join(_, _)
Join(tokens, sep) ==
    IF Len(tokens) = 0 THEN <<>>
    ELSE IF Len(tokens) = 1 THEN tokens[1]
    ELSE tokens[1] \o <<sep>> \o Join(SubSeq(tokens, 2, Len(tokens)), sep)

IsDescending(field) == Len(field) > 0 /\ field[1] = "-"
FieldName(field) == IF IsDescending(field) THEN SubSeq(field, 2, Len(field)) ELSE field

\* the position of the k-th comma of v; 0 for k = 0, Len(v) + 1 past the last
CommaAt(v, k) ==
    IF k = 0 THEN 0
    ELSE IF k > Count(v, ",") THEN Len(v) + 1
    ELSE CHOOSE p \in 1..Len(v) : v[p] = "," /\ Count(SubSeq(v, 1, p), ",") = k

\* the i-th comma-separated token of v: what lies between two commas
NthToken(v, i) == SubSeq(v, CommaAt(v, i - 1) + 1, CommaAt(v, i) - 1)

C12_DefaultSort ==
    (sortRet # <<>> /\ (~HasSort \/ Len(SortValue) = 0))
        => /\ sortRet[1] = << <<"_", "i", "d">> >>
           /\ ~IsDescending(sortRet[1][1])

\* C12 witness: the sort key is present with an empty first value, and Sort
\* returned the default.
C12_Witness ==
    /\ sortRet # <<>>
    /\ sortRet[1] = << <<"_", "i", "d">> >>
    /\ HasSort
    /\ Len(SortValue) = 0

----------------------------------------------------------------------------
(* Properties of NoResult, Connect and Close, checked under SpecSession    *)

\* C14: NoResult returns (true, ErrNoResults) exactly when its input is the
\* driver's not-found error, and (false, nil) for nil and for every other
\* error, so the boolean alone tells "no document matched" apart.
C14_NotFoundOnly ==
    noResult # <<>>
        => LET call == noResult[1]
               notFound == call.input.ptr = "mgo.ErrNotFound"
           IN  /\ call.found <=> notFound
               /\ notFound => call.err = "noResultsFound"
               /\ ~notFound => call.err = NoError

\* C14 witness: NoResult was given the driver's not-found error and said so.
C14_Witness ==
    /\ noResult # <<>>
    /\ noResult[1].input = ErrNotFound
    /\ noResult[1].found
    /\ noResult[1].err = ErrNoResults

\* C15: SESSION is non-nil exactly when some Connect has dialed with
\* success; a Connect that panics and a Close leave SESSION as it was, the
\* session Close was called on stays in SESSION, closed, and Close panics
\* exactly when SESSION is nil.
C15_SessionHandle ==
    /\ SESSION # NilSession <=> Len(sessions) > 0
    /\ lastCall # <<>> =>
        LET call == lastCall[1]
        IN  /\ (call.op = "Connect" /\ call.outcome = Panic) => SESSION = call.before
            /\ call.op = "Close" =>
                /\ SESSION = call.before
                /\ call.outcome = Panic <=> call.before = NilSession
                /\ SESSION # NilSession => sessions[SESSION].closed

\* C15 witness: after a Connect, a Close and a Connect whose dial failed,
\* SESSION still points at the closed session.
C15_Witness ==
    /\ SESSION # NilSession
    /\ sessions[SESSION].closed
    /\ lastCall # <<>>
    /\ lastCall[1].op = "Connect"
    /\ lastCall[1].outcome = Panic
    /\ lastCall[1].before = SESSION

=============================================================================
